---- MODULE Spec2Model ----
(***************************************************************************)
(* A model of internal/nix/profiles.go: the diff-aware file writer         *)
(* (overwriteFileIfChanged / overwriteFile), the profile manifest reader   *)
(* and priority assignment (readManifest / nextPriority / ProfileInstall / *)
(* ProfileRemove), and the git bootstrap of the generated flake            *)
(* (makeFlakeFile / isProjectInGitRepo).                                   *)
(***************************************************************************)
EXTENDS Integers, Sequences, FiniteSets, TLC

VARIABLES
    \* ---- file synchronizer ----
    fsFile,     \* the path on disk: [parent, exists, content, perm, mtime]
    fsPre,      \* fsFile as it was when the last call started
    syncArgs,   \* the last call's inputs: [data, perm, umask, fault, n]
    syncRet,    \* "none" before any call, then "nil" or "err"
    syncOps,    \* the file operations the last call performed, in order
    \* ---- profile ----
    manifest,   \* manifest.json of the profile: [shape, elems]
    installSeq, \* how many installs the external tool has recorded
    lastCall,   \* what the last ProfileInstall / ProfileRemove did
    \* ---- flake / git ----
    flakeIn,    \* makeFlakeFile's inputs and environment
    pc,         \* position in makeFlakeFile / isProjectInGitRepo
    dir,        \* isProjectInGitRepo's loop variable
    walk,       \* what the walk met: [visited, hit]
    gitCmds,    \* the git commands run so far, in order
    flakeRet    \* "none" while running, then "nil" or "err"

syncVars == <<fsFile, fsPre, syncArgs, syncRet, syncOps>>
profVars == <<manifest, installSeq, lastCall>>
flakeVars == <<flakeIn, pc, dir, walk, gitCmds, flakeRet>>
vars == <<syncVars, profVars, flakeVars>>

----------------------------------------------------------------------------
(* Bounds *)

MaxLen == 3        \* longest file content / data
MaxInstalls == 2   \* most installs the external tool records in one run
MaxPathLen == 4    \* longest outPath, in characters

----------------------------------------------------------------------------
(* Generic helpers *)

SeqsUpTo(S, n) == UNION {[1..k -> S] : k \in 0..n}

----------------------------------------------------------------------------
(* File synchronizer: overwriteFileIfChanged, overwriteFile *)

Bytes == {"A", "B"}
Nul == "0"         \* the byte a growing truncate pads with

Datas == SeqsUpTo(Bytes, MaxLen)

\* 0o644 and 0o755 are the modes the callers pass; 0o600 stands for another.
PermArgs == {420, 493, 384}
\* umask 0o022 and 0o077
Umasks == {18, 63}

\* At most one failure is injected per call, among the calls that can be
\* reached: os.MkdirAll and os.WriteFile when the parent directory is missing,
\* otherwise OpenFile, Stat, Chmod, a ReadByte at an offset of data, Truncate
\* and WriteAt.
FaultKinds == {"none", "open", "mkdir", "writefile", "stat", "chmod",
               "read", "trunc", "write"}
NoFault == [kind |-> "none", at |-> 0]
FaultsFor(f, data) ==
    IF ~f.parent
    THEN [kind : {"none", "mkdir", "writefile"}, at : {0}]
    ELSE [kind : {"none", "open", "stat", "chmod", "trunc", "write"}, at : {0}]
           \cup [kind : {"read"}, at : 0..(Len(data) - 1)]

RECURSIVE AndNot(_, _)
\* a &^ b on non-negative integers
AndNot(a, b) ==
    IF a = 0 THEN 0
    ELSE ((a % 2) * (1 - (b % 2))) + 2 * AndNot(a \div 2, b \div 2)

Op(name, off, len, perm) == [op |-> name, off |-> off, len |-> len, perm |-> perm]

NoFile == [parent |-> TRUE, exists |-> FALSE, content |-> <<>>, perm |-> 0, mtime |-> 0]
NoParent == [parent |-> FALSE, exists |-> FALSE, content |-> <<>>, perm |-> 0, mtime |-> 0]

FileStates ==
    {NoFile, NoParent}
      \cup [parent : {TRUE}, exists : {TRUE}, content : Datas,
            perm : PermArgs, mtime : {0}]

\* f.Truncate(n): cut, or pad with NUL bytes
Truncated(content, n) ==
    [i \in 1..n |-> IF i <= Len(content) THEN content[i] ELSE Nul]

\* f.WriteAt(b, off) on a file at least off long
WrittenAt(content, b, off) ==
    [i \in 1..(IF Len(content) > off + Len(b) THEN Len(content) ELSE off + Len(b)) |->
        IF i > off /\ i <= off + Len(b) THEN b[i - off] ELSE content[i]]

\* data[offset:]
From(data, offset) == SubSeq(data, offset + 1, Len(data))

\* overwriteFile, were it to ignore offset and write all of data at 0
OverwriteFileFromZero(f, data, offset, fault) ==
    IF fault.kind = "trunc" THEN [file |-> f, ret |-> "err", ops |-> <<>>]
    ELSE LET t == [f EXCEPT !.content = Truncated(f.content, Len(data)),
                            !.mtime = f.mtime + 1]
             tops == <<Op("truncate", 0, Len(data), 0)>>
         IN  IF Len(data) = 0
             THEN [file |-> t, ret |-> "nil", ops |-> tops]
             ELSE IF fault.kind = "write"
             THEN [file |-> t, ret |-> "err", ops |-> tops]
             ELSE [file |-> [t EXCEPT !.content = WrittenAt(t.content, data, 0),
                                      !.mtime = t.mtime + 1],
                   ret |-> "nil",
                   ops |-> Append(tops, Op("writeat", 0, Len(data), 0))]

\* overwriteFile(f, data, offset): truncate f to len(data), then write
\* data[offset:] at offset. WriteAt of an empty slice issues no write.
OverwriteFile(f, data, offset, fault) ==
    IF fault.kind = "trunc" THEN [file |-> f, ret |-> "err", ops |-> <<>>]
    ELSE LET t == [f EXCEPT !.content = Truncated(f.content, Len(data)),
                            !.mtime = f.mtime + 1]
             tops == <<Op("truncate", 0, Len(data), 0)>>
             b == From(data, offset)
         IN  IF Len(b) = 0
             THEN [file |-> t, ret |-> "nil", ops |-> tops]
             ELSE IF fault.kind = "write"
             THEN [file |-> t, ret |-> "err", ops |-> tops]
             ELSE [file |-> [t EXCEPT !.content = WrittenAt(t.content, b, offset),
                                      !.mtime = t.mtime + 1],
                   ret |-> "nil",
                   ops |-> Append(tops, Op("writeat", offset, Len(b), 0))]

\* the scan, were it to report a mismatch at once (a blind overwrite)
FirstMismatchBlind(content, data, fault) ==
    IF Len(data) = 0 THEN -1 ELSE 0

\* The scan loop of overwriteFileIfChanged (bufio ReadByte from offset 0):
\* the first offset of data at which the read fails (end of file, or the
\* injected read error) or the byte differs; -1 when the loop runs out.
FirstMismatch(content, data, fault) ==
    LET bad == {o \in 0..(Len(data) - 1) :
                    \/ o >= Len(content)
                    \/ (fault.kind = "read" /\ fault.at = o)
                    \/ content[o + 1] # data[o + 1]}
    IN  IF bad = {} THEN -1
        ELSE CHOOSE o \in bad : \A p \in bad : o <= p

\* os.WriteFile(path, data, perm) on a path that does not exist: the file is
\* created with perm minus the umask; no chmod follows.
WriteNewFile(f, data, perm, umask, fault) ==
    IF fault.kind = "mkdir"
    THEN [file |-> f, ret |-> "err", ops |-> <<>>]
    ELSE IF fault.kind = "writefile"
    THEN [file |-> [f EXCEPT !.parent = TRUE], ret |-> "err",
          ops |-> <<Op("mkdirall", 0, 0, 448)>>]
    ELSE [file |-> [parent |-> TRUE, exists |-> TRUE, content |-> data,
                    perm |-> AndNot(perm, umask), mtime |-> f.mtime + 1],
          ret |-> "nil",
          ops |-> <<Op("mkdirall", 0, 0, 448),
                    Op("writefile", 0, Len(data), AndNot(perm, umask))>>]

\* The part of overwriteFileIfChanged after a successful open: o is the open
\* file (created empty by O_CREATE when it did not exist), oops the
\* operations so far.
SyncOpened(o, oops, data, perm, fault) ==
    LET needChmod == fault.kind = "stat" \/ o.perm # perm
        c == IF needChmod /\ fault.kind # "chmod"
             THEN [o EXCEPT !.perm = perm] ELSE o
        cops == IF needChmod /\ fault.kind # "chmod"
                THEN Append(oops, Op("chmod", 0, 0, perm)) ELSE oops
    IN  IF needChmod /\ fault.kind = "chmod"
        THEN [file |-> o, ret |-> "err", ops |-> oops]
        ELSE IF fault.kind # "stat" /\ Len(c.content) # Len(data)
        THEN LET r == OverwriteFile(c, data, 0, fault)
             IN  [r EXCEPT !.ops = cops \o r.ops]
        ELSE LET k == FirstMismatch(c.content, data, fault)
             IN  IF k = -1
                 THEN [file |-> c, ret |-> "nil", ops |-> cops]
                 ELSE LET r == OverwriteFile(c, data, k, fault)
                      IN  [r EXCEPT !.ops = cops \o r.ops]

\* overwriteFileIfChanged(path, data, perm) under a umask and one fault
OverwriteFileIfChanged(f, data, perm, umask, fault) ==
    IF ~f.parent
    THEN WriteNewFile(f, data, perm, umask, fault)
    ELSE IF fault.kind = "open"
    THEN [file |-> f, ret |-> "err", ops |-> <<>>]
    ELSE IF ~f.exists
    THEN SyncOpened([f EXCEPT !.exists = TRUE, !.content = <<>>,
                              !.perm = AndNot(perm, umask),
                              !.mtime = f.mtime + 1],
                    <<Op("create", 0, 0, AndNot(perm, umask))>>,
                    data, perm, fault)
    ELSE SyncOpened(f, <<>>, data, perm, fault)

SyncIdle ==
    /\ fsPre = NoFile
    /\ syncArgs = [data |-> <<>>, perm |-> 0, umask |-> 0,
                   fault |-> NoFault, n |-> 0]
    /\ syncRet = "none"
    /\ syncOps = <<>>

\* One call of overwriteFileIfChanged on the path.
Sync ==
    /\ syncArgs.n = 0
    /\ \E data \in Datas, perm \in PermArgs, umask \in Umasks :
       \E fault \in FaultsFor(fsFile, data) :
          LET r == OverwriteFileIfChanged(fsFile, data, perm, umask, fault)
          IN  /\ fsPre' = fsFile
              /\ syncArgs' = [data |-> data, perm |-> perm, umask |-> umask,
                              fault |-> fault, n |-> 1]
              /\ fsFile' = r.file
              /\ syncRet' = r.ret
              /\ syncOps' = r.ops
    /\ UNCHANGED <<profVars, flakeVars>>

\* A second consecutive call with the same data and permission.
SyncAgain ==
    /\ syncRet = "nil"
    /\ syncArgs.n = 1
    /\ \E fault \in FaultsFor(fsFile, syncArgs.data) :
          LET r == OverwriteFileIfChanged(fsFile, syncArgs.data, syncArgs.perm,
                                          syncArgs.umask, fault)
          IN  /\ fsPre' = fsFile
              /\ syncArgs' = [syncArgs EXCEPT !.fault = fault, !.n = 2]
              /\ fsFile' = r.file
              /\ syncRet' = r.ret
              /\ syncOps' = r.ops
    /\ UNCHANGED <<profVars, flakeVars>>

----------------------------------------------------------------------------
(* Profile: readManifest, nextPriority, ProfileInstall, ProfileRemove *)

DefaultPriority == 5

InitPrios == {3, 5, 9}

Shapes == {"legacy", "modern", "unknown"}

Elem(p, core, n) == [priority |-> p, byCore |-> core, seq |-> n]

\* manifest.json as the external tool persists it, with up to two elements
\* installed by others. "unknown" is a shape this code decodes in neither
\* generation.
Manifests ==
    {[shape |-> "absent", elems |-> <<>>]}
      \cup {[shape |-> s, elems |-> [i \in DOMAIN ps |-> Elem(ps[i], FALSE, 0)]] :
               s \in Shapes, ps \in SeqsUpTo(InitPrios, 2)}

\* The bytes of manifest.json, as far as the decoders look at them: the JSON
\* type of "elements" and its members' "priority" values.
Wire(m) ==
    CASE m.shape = "legacy" ->
           [kind |-> "array", items |-> [i \in DOMAIN m.elems |-> m.elems[i].priority]]
      [] m.shape = "modern" ->
           [kind |-> "object", items |-> [i \in DOMAIN m.elems |-> m.elems[i].priority]]
      [] OTHER -> [kind |-> "other", items |-> <<>>]

\* orders in which a Go map of n entries may be ranged over: the rotations,
\* so that every entry comes first, and last, in one of them
Orders(n) == {[i \in 1..n |-> ((i + k - 1) % n) + 1] : k \in 0..(IF n = 0 THEN 0 ELSE n - 1)}

NoElements == [Elements |-> <<>>, err |-> FALSE]

\* json.Unmarshal into manifestModern, then the conversion loop over the map
DecodeModern(w, order) ==
    IF w.kind = "object"
    THEN [Elements |-> [i \in DOMAIN w.items |-> [Priority |-> w.items[order[i]]]],
          err |-> FALSE]
    ELSE [Elements |-> <<>>, err |-> TRUE]

\* json.Unmarshal into manifestLegacy, then the conversion loop over the slice
DecodeLegacy(w) ==
    IF w.kind = "array"
    THEN [Elements |-> [i \in DOMAIN w.items |-> [Priority |-> w.items[i]]],
          err |-> FALSE]
    ELSE [Elements |-> <<>>, err |-> TRUE]

\* readManifest, were it without the legacy fallback
ReadManifestModernOnly(m, readErr, order) ==
    IF m.shape = "absent" THEN NoElements
    ELSE IF readErr THEN [Elements |-> <<>>, err |-> TRUE]
    ELSE DecodeModern(Wire(m), order)

\* readManifest(profilePath): a missing file is an empty manifest and no
\* error; another read error, or a decode failure in both shapes, is an error.
ReadManifest(m, readErr, order) ==
    IF m.shape = "absent" THEN NoElements
    ELSE IF readErr THEN [Elements |-> <<>>, err |-> TRUE]
    ELSE LET modern == DecodeModern(Wire(m), order)
         IN  IF ~modern.err THEN modern ELSE DecodeLegacy(Wire(m))

RECURSIVE MaxPriority(_, _)
\* the loop of nextPriority
MaxPriority(max, elements) ==
    IF elements = <<>> THEN max
    ELSE MaxPriority(IF Head(elements).Priority > max
                     THEN Head(elements).Priority ELSE max,
                     Tail(elements))

DigitChar == <<"0", "1", "2", "3", "4", "5", "6", "7", "8", "9">>

RECURSIVE Digits(_)
Digits(n) ==
    IF n < 10 THEN <<DigitChar[n + 1]>>
    ELSE Append(Digits(n \div 10), DigitChar[(n % 10) + 1])

\* fmt.Sprintf("%d", n)
Sprintd(n) == IF n < 0 THEN <<"-">> \o Digits(-n) ELSE Digits(n)

\* nextPriority(profilePath): readManifest's error is dropped
NextPriority(m, readErr, order) ==
    LET r == ReadManifest(m, readErr, order)
    IN  Sprintd(MaxPriority(DefaultPriority, r.Elements) + 1)

\* The vulnerability lookup (PackageIsInsecure, PackageKnownVulnerabilities)
\* and the override (IsInsecureAllowed) live outside this file.
Installables == {"hello", "openssl_1_1", "python2"}
PackageIsInsecure(i) == i \in {"openssl_1_1", "python2"}
PackageKnownVulnerabilities(i) ==
    IF i = "openssl_1_1" THEN <<"CVE-2023-0464">> ELSE <<>>

\* The external tool's side of `nix profile install --priority <n>`: it parses
\* the decimal argument and records the element with that priority.
RECURSIVE ParseDigits(_, _)
ParseDigits(acc, s) ==
    IF s = <<>> THEN acc
    ELSE ParseDigits(10 * acc + ((CHOOSE d \in 1..10 : DigitChar[d] = Head(s)) - 1),
                     Tail(s))
ParseInt(s) == IF Head(s) = "-" THEN 0 - ParseDigits(0, Tail(s)) ELSE ParseDigits(0, s)

ToolInstall(m, prio, n, newShape) ==
    [shape |-> IF m.shape = "absent" THEN newShape ELSE m.shape,
     elems |-> Append(m.elems, Elem(ParseInt(prio), TRUE, n))]

\* The external tool's side of `nix profile remove <index>...`
ToolRemove(m, idx) ==
    LET keep == {i \in DOMAIN m.elems : i \notin idx}
        F[i \in 0..Len(m.elems)] ==
            IF i = 0 THEN <<>>
            ELSE IF i \in keep THEN Append(F[i - 1], m.elems[i]) ELSE F[i - 1]
    IN  [m EXCEPT !.elems = F[Len(m.elems)]]

NoCmd == [sub |-> "none", priority |-> <<>>, offline |-> FALSE, installable |-> ""]

NoCall ==
    [op |-> "none", installable |-> "", allowInsecure |-> FALSE, readErr |-> FALSE,
     pre |-> [shape |-> "absent", elems |-> <<>>], events |-> <<>>, cmd |-> NoCmd,
     ret |-> "nil", errPkg |-> "", errVulns |-> <<>>]

\* ProfileInstall, were the insecure-package guard applied after the command
InstallGuardAfterRun(pre, installable, offline, allowInsecure, readErr, order, toolOk) ==
    LET prio == NextPriority(pre, readErr, order)
        blocked == ~allowInsecure /\ PackageIsInsecure(installable)
    IN  [NoCall EXCEPT !.op = "install", !.installable = installable,
                       !.allowInsecure = allowInsecure, !.readErr = readErr,
                       !.pre = pre,
                       !.events = <<"readManifest", "run">>,
                       !.cmd = [sub |-> "install", priority |-> prio,
                                offline |-> offline, installable |-> installable],
                       !.ret = IF blocked THEN "usererr"
                               ELSE IF toolOk THEN "nil" ELSE "exiterr",
                       !.errPkg = IF blocked THEN installable ELSE "",
                       !.errVulns = IF blocked
                                    THEN PackageKnownVulnerabilities(installable)
                                    ELSE <<>>]

\* ProfileInstall(ctx, args): what the call does and returns. toolOk is the
\* exit status of the external tool, should it be run.
InstallCall(pre, installable, offline, allowInsecure, readErr, order, toolOk) ==
    LET base == [NoCall EXCEPT !.op = "install", !.installable = installable,
                               !.allowInsecure = allowInsecure,
                               !.readErr = readErr, !.pre = pre]
    IN  IF ~allowInsecure /\ PackageIsInsecure(installable)
        THEN [base EXCEPT !.ret = "usererr", !.errPkg = installable,
                          !.errVulns = PackageKnownVulnerabilities(installable)]
        ELSE [base EXCEPT !.events = <<"readManifest", "run">>,
                          !.cmd = [sub |-> "install",
                                   priority |-> NextPriority(pre, readErr, order),
                                   offline |-> offline,
                                   installable |-> installable],
                          !.ret = IF toolOk THEN "nil" ELSE "exiterr"]

ProfileIdle ==
    /\ installSeq = 0
    /\ lastCall = NoCall

ProfileInstall ==
    /\ installSeq < MaxInstalls
    /\ \E installable \in Installables, offline \in BOOLEAN, allowInsecure \in BOOLEAN,
          readErr \in BOOLEAN, toolOk \in BOOLEAN :
       \E order \in IF readErr THEN {<<>>} ELSE Orders(Len(manifest.elems)) :
       \E newShape \in IF manifest.shape = "absent" /\ toolOk
                        THEN {"legacy", "modern"} ELSE {manifest.shape} :
          LET c == InstallCall(manifest, installable, offline, allowInsecure,
                               readErr, order, toolOk)
              ran == c.cmd.sub = "install" /\ c.ret = "nil"
          IN  /\ lastCall' = c
              /\ installSeq' = IF ran THEN installSeq + 1 ELSE installSeq
              /\ manifest' = IF ran
                             THEN ToolInstall(manifest, c.cmd.priority,
                                              installSeq + 1, newShape)
                             ELSE manifest
    /\ UNCHANGED <<syncVars, flakeVars>>

\* ProfileRemove(profilePath, indexes...)
ProfileRemove ==
    /\ \E idx \in (SUBSET DOMAIN manifest.elems) \ {{}}, toolOk \in BOOLEAN :
          /\ lastCall' = [NoCall EXCEPT !.op = "remove", !.pre = manifest,
                                        !.events = <<"run">>,
                                        !.cmd = [NoCmd EXCEPT !.sub = "remove"],
                                        !.ret = IF toolOk THEN "nil" ELSE "exiterr"]
          /\ manifest' = IF toolOk THEN ToolRemove(manifest, idx) ELSE manifest
    /\ UNCHANGED installSeq
    /\ UNCHANGED <<syncVars, flakeVars>>

----------------------------------------------------------------------------
(* Flake: makeFlakeFile, isProjectInGitRepo, filepath.Dir / Join / Clean *)

PathChars == {"/", "a", "."}
Paths == SeqsUpTo(PathChars, MaxPathLen)

Root == <<"/">>
Dot == <<".">>
DotDot == <<".", ".">>
DotGit == <<".", "g", "i", "t">>

RECURSIVE SplitFrom(_, _, _)
\* cur is the component being read, out the components before it
SplitFrom(p, cur, out) ==
    IF p = <<>> THEN Append(out, cur)
    ELSE IF Head(p) = "/" THEN SplitFrom(Tail(p), <<>>, Append(out, cur))
    ELSE SplitFrom(Tail(p), Append(cur, Head(p)), out)

\* the components of p between separators, empty ones included
Split(p) == SplitFrom(p, <<>>, <<>>)

RECURSIVE JoinComps(_)
JoinComps(cs) ==
    IF cs = <<>> THEN <<>>
    ELSE IF Len(cs) = 1 THEN cs[1]
    ELSE cs[1] \o <<"/">> \o JoinComps(Tail(cs))

RECURSIVE CleanComps(_, _, _)
\* filepath.Clean's pass over the components, out being the ones kept so far
CleanComps(cs, out, rooted) ==
    IF cs = <<>> THEN out
    ELSE LET c == Head(cs)
         IN  IF c = <<>> \/ c = Dot
             THEN CleanComps(Tail(cs), out, rooted)
             ELSE IF c = DotDot
             THEN IF out # <<>> /\ out[Len(out)] # DotDot
                  THEN CleanComps(Tail(cs), SubSeq(out, 1, Len(out) - 1), rooted)
                  ELSE IF ~rooted
                  THEN CleanComps(Tail(cs), Append(out, c), rooted)
                  ELSE CleanComps(Tail(cs), out, rooted)
             ELSE CleanComps(Tail(cs), Append(out, c), rooted)

\* filepath.Clean (Unix)
Clean(p) ==
    IF p = <<>> THEN Dot
    ELSE LET rooted == Head(p) = "/"
             body == JoinComps(CleanComps(Split(p), <<>>, rooted))
             r == IF rooted THEN Root \o body ELSE body
         IN  IF r = <<>> THEN Dot ELSE r

LastSlash(p) ==
    IF \E i \in DOMAIN p : p[i] = "/"
    THEN CHOOSE i \in DOMAIN p : p[i] = "/" /\ \A j \in DOMAIN p : p[j] = "/" => j <= i
    ELSE 0

\* filepath.Dir: all but the last element of p, cleaned
Dir(p) == Clean(SubSeq(p, 1, LastSlash(p)))

\* filepath.Join(d, ".git")
JoinGit(d) == IF d = <<>> THEN Clean(DotGit) ELSE Clean(d \o <<"/">> \o DotGit)

RECURSIVE Chain(_)
\* the directories the walk stats from d on when every stat says not-found
Chain(d) ==
    IF d = Root THEN {}
    ELSE IF Dir(d) = d THEN {d}
    ELSE {d} \cup Chain(Dir(d))

RECURSIVE Ancestors(_)
\* d and its ancestors, the root (or ".") included
Ancestors(d) == IF Dir(d) = d THEN {d} ELSE {d} \cup Ancestors(Dir(d))

StatResults == {"found", "notexist", "othererr"}

\* os.Stat(filepath.Join(d, ".git")) in the environment env
StatGit(env, d) == env[JoinGit(d)]

FlakeInputs ==
    UNION {[outPath : {p}, needsGlibcPatch : BOOLEAN,
            stat : [{JoinGit(d) : d \in Ancestors(p)} -> StatResults]] : p \in Paths}

NoWalk == [visited |-> {}, hit |-> "none"]

FlakeIdle ==
    /\ flakeIn = [outPath |-> Root, needsGlibcPatch |-> FALSE,
                  stat |-> [k \in {JoinGit(Root)} |-> "notexist"]]
    /\ pc = "done"
    /\ dir = Root
    /\ walk = NoWalk
    /\ gitCmds = <<>>
    /\ flakeRet = "none"

GitCmd(args, ok) == [args |-> args, ok |-> ok]

\* makeFlakeFile up to the call of isProjectInGitRepo: writeFromTemplate
WriteFlake ==
    /\ pc = "write"
    /\ \E ok \in BOOLEAN :
          IF ok THEN /\ pc' = "walk"
                     /\ dir' = flakeIn.outPath
                     /\ flakeRet' = flakeRet
                ELSE /\ pc' = "done"
                     /\ dir' = dir
                     /\ flakeRet' = "err"
    /\ UNCHANGED <<flakeIn, walk, gitCmds, syncVars, profVars>>

\* isProjectInGitRepo: the loop test `for dir != "/"`; false when it fails,
\* and makeFlakeFile returns nil
WalkTest ==
    /\ pc = "walk"
    /\ IF dir # Root
       THEN pc' = "stat" /\ flakeRet' = flakeRet
       ELSE pc' = "done" /\ flakeRet' = "nil"
    /\ UNCHANGED <<flakeIn, dir, walk, gitCmds, syncVars, profVars>>

\* the stat step, were an error other than not-found treated as not-found
WalkStatErrContinues ==
    /\ pc = "stat"
    /\ \E r \in {StatGit(flakeIn.stat, dir)} :
           /\ walk' = [visited |-> walk.visited \cup {dir},
                       hit |-> IF r = "found" THEN r ELSE walk.hit]
           /\ pc' = IF r = "found" THEN "init" ELSE "parent"
           /\ flakeRet' = flakeRet
    /\ UNCHANGED <<flakeIn, dir, gitCmds, syncVars, profVars>>

\* isProjectInGitRepo: the stat of dir/.git and the two returns
WalkStat ==
    /\ pc = "stat"
    /\ \E r \in {StatGit(flakeIn.stat, dir)} :
           /\ walk' = [visited |-> walk.visited \cup {dir},
                       hit |-> IF r = "notexist" THEN walk.hit ELSE r]
           /\ pc' = CASE r = "found" -> "init"
                      [] r = "notexist" -> "parent"
                      [] OTHER -> "done"
           /\ flakeRet' = IF r = "othererr" THEN "nil" ELSE flakeRet
    /\ UNCHANGED <<flakeIn, dir, gitCmds, syncVars, profVars>>

\* isProjectInGitRepo: dir = filepath.Dir(dir)
WalkParent ==
    /\ pc = "parent"
    /\ dir' = Dir(dir)
    /\ pc' = "walk"
    /\ UNCHANGED <<flakeIn, walk, gitCmds, flakeRet, syncVars, profVars>>

\* git init, were its failure ignored
GitInitIgnoreFailure ==
    /\ pc = "init"
    /\ \E ok \in BOOLEAN :
          /\ gitCmds' = Append(gitCmds, GitCmd(<<"init">>, ok))
          /\ pc' = "add"
          /\ flakeRet' = flakeRet
    /\ UNCHANGED <<flakeIn, dir, walk, syncVars, profVars>>

\* makeFlakeFile: git -C flakeDir init
GitInit ==
    /\ pc = "init"
    /\ \E ok \in BOOLEAN :
          /\ gitCmds' = Append(gitCmds, GitCmd(<<"init">>, ok))
          /\ pc' = IF ok THEN "add" ELSE "done"
          /\ flakeRet' = IF ok THEN flakeRet ELSE "err"
    /\ UNCHANGED <<flakeIn, dir, walk, syncVars, profVars>>

\* makeFlakeFile: git -C flakeDir add flake.nix [glibc-patch/flake.nix]
GitAdd ==
    /\ pc = "add"
    /\ \E ok \in BOOLEAN :
          /\ gitCmds' = Append(gitCmds,
                 GitCmd(IF flakeIn.needsGlibcPatch
                        THEN <<"add", "flake.nix", "glibc-patch/flake.nix">>
                        ELSE <<"add", "flake.nix">>, ok))
          /\ pc' = "done"
          /\ flakeRet' = IF ok THEN "nil" ELSE "err"
    /\ UNCHANGED <<flakeIn, dir, walk, syncVars, profVars>>

----------------------------------------------------------------------------
(* Specifications *)

InitSync ==
    /\ fsFile \in FileStates
    /\ SyncIdle
    /\ manifest = [shape |-> "absent", elems |-> <<>>]
    /\ ProfileIdle
    /\ FlakeIdle

NextSync == Sync \/ SyncAgain

SpecSync == InitSync /\ [][NextSync]_vars

InitProfile ==
    /\ fsFile = NoFile
    /\ SyncIdle
    /\ manifest \in Manifests
    /\ ProfileIdle
    /\ FlakeIdle

NextProfile == ProfileInstall \/ ProfileRemove

SpecProfile == InitProfile /\ [][NextProfile]_vars

InitFlake ==
    /\ fsFile = NoFile
    /\ SyncIdle
    /\ manifest = [shape |-> "absent", elems |-> <<>>]
    /\ ProfileIdle
    /\ flakeIn \in FlakeInputs
    /\ pc = "write"
    /\ dir = Root
    /\ walk = NoWalk
    /\ gitCmds = <<>>
    /\ flakeRet = "none"

NextFlake == WriteFlake \/ WalkTest \/ WalkStat \/ WalkParent \/ GitInit \/ GitAdd

SpecFlake == InitFlake /\ [][NextFlake]_vars

\* makeFlakeFile runs on one goroutine and each of its steps returns
FairFlake == SpecFlake /\ WF_vars(NextFlake)

Init == InitSync \/ InitProfile \/ InitFlake
Next == NextSync \/ NextProfile \/ NextFlake
Spec == Init /\ [][Next]_vars

----------------------------------------------------------------------------
(* Properties of the file synchronizer (checked under SpecSync) *)

Called == syncArgs.n >= 1

\* the file already holds exactly the data and the permission of the call
Synchronized ==
    /\ Called
    /\ fsPre.exists
    /\ fsPre.content = syncArgs.data
    /\ fsPre.perm = syncArgs.perm

Untouched ==
    /\ syncRet = "nil"
    /\ syncOps = <<>>
    /\ fsFile = fsPre

\* C1 as stated: a call on an already synchronized file returns no error and
\* performs no write, truncate or chmod, whatever else happens in the call.
C1_Unconditional == Synchronized => Untouched

\* C1, amended: a call on an already synchronized file whose open, stat and
\* reads succeed returns no error, performs no write, no truncate and no
\* chmod, and leaves the file (its modification time included) as it was.
C1_NoWriteWhenSynchronized ==
    (Synchronized /\ syncArgs.fault.kind \notin {"open", "stat", "read"})
        => Untouched

\* the second of two consecutive identical calls, on a non-empty file
C1_Witness ==
    /\ Synchronized
    /\ syncArgs.n = 2
    /\ syncArgs.fault.kind = "none"
    /\ Len(syncArgs.data) = MaxLen
    /\ fsPre.mtime > 0
    /\ fsFile.mtime = fsPre.mtime

\* C2: whenever the call returns without error the file holds exactly the
\* data and has exactly the permission bits asked for.
C2_ExactContentAndPerm ==
    (Called /\ syncRet = "nil")
        => /\ fsFile.exists
           /\ fsFile.content = syncArgs.data
           /\ fsFile.perm = syncArgs.perm

WriteOps == {i \in DOMAIN syncOps : syncOps[i].op = "writeat"}

\* offsets at which the old content and the data differ
DiffOffsets ==
    {o \in 0..(Len(syncArgs.data) - 1) :
        o < Len(fsPre.content) /\ fsPre.content[o + 1] # syncArgs.data[o + 1]}

\* offsets at which the scan stops: a differing byte or a failed read
StopOffsets ==
    DiffOffsets \cup (IF syncArgs.fault.kind = "read" THEN {syncArgs.fault.at} ELSE {})

Least(S) == CHOOSE x \in S : \A y \in S : x <= y

SameLength == Called /\ fsPre.exists /\ Len(fsPre.content) = Len(syncArgs.data)
OtherLength == Called /\ fsPre.exists /\ Len(fsPre.content) # Len(syncArgs.data)

\* exactly data[k:] was written at offset k, and the file now holds the data
WroteFrom(k) ==
    /\ Cardinality(WriteOps) = 1
    /\ \A i \in WriteOps : /\ syncOps[i].off = k
                           /\ syncOps[i].len = Len(syncArgs.data) - k
    /\ fsFile.content = syncArgs.data

----------------------------------------------------------------------------
(* Properties of the profile operations (checked under SpecProfile) *)

Installed == lastCall.op = "install"
Ran == Installed /\ lastCall.cmd.sub = "install"
Flagged == PackageIsInsecure(lastCall.installable)

PrePriorities == {lastCall.pre.elems[i].priority : i \in DOMAIN lastCall.pre.elems}

Greatest(S) == CHOOSE x \in S : \A y \in S : y <= x

\* C4: for an absent, legacy or modern manifest that is read, the priority
\* handed to the external tool is 1 + max({5} \cup the elements' priorities).
C4_NextPriorityIsMaxPlusOne ==
    (Ran /\ ~lastCall.readErr /\ lastCall.pre.shape \in {"absent", "legacy", "modern"})
        => ParseInt(lastCall.cmd.priority)
             = 1 + Greatest({DefaultPriority} \cup PrePriorities)

\* a legacy manifest with a duplicated priority above 5
C4_Witness ==
    /\ Ran
    /\ ~lastCall.readErr
    /\ lastCall.pre.shape = "legacy"
    /\ Len(lastCall.pre.elems) = 2
    /\ PrePriorities = {9}
    /\ lastCall.cmd.priority = <<"1", "0">>

\* C5: an install of a flagged installable without the override returns a
\* user error naming it, having read no manifest and run no command; with the
\* override, or for an installable not flagged, there is no user error and
\* the install command is run.
C5_GuardBeforeAnything ==
    Installed =>
        IF Flagged /\ ~lastCall.allowInsecure
        THEN /\ lastCall.ret = "usererr"
             /\ lastCall.errPkg = lastCall.installable
             /\ lastCall.errVulns = PackageKnownVulnerabilities(lastCall.installable)
             /\ lastCall.events = <<>>
             /\ lastCall.cmd = NoCmd
             /\ manifest = lastCall.pre
        ELSE /\ lastCall.ret # "usererr"
             /\ lastCall.events = <<"readManifest", "run">>
             /\ lastCall.cmd.sub = "install"
             /\ lastCall.cmd.installable = lastCall.installable

C5_Witness ==
    /\ Installed
    /\ lastCall.installable = "openssl_1_1"
    /\ ~lastCall.allowInsecure
    /\ lastCall.ret = "usererr"
    /\ lastCall.errVulns # <<>>
    /\ Len(lastCall.pre.elems) > 0

\* the manifest exists and readManifest returns an error for it
ManifestUnreadable ==
    /\ lastCall.pre.shape # "absent"
    /\ lastCall.readErr \/ lastCall.pre.shape = "unknown"

\* C8: when manifest.json exists but cannot be read or decoded, the install
\* reports an error and does not run the external tool.
C8_ManifestErrorReported ==
    (Installed /\ ~(Flagged /\ ~lastCall.allowInsecure) /\ ManifestUnreadable)
        => /\ lastCall.ret # "nil"
           /\ lastCall.cmd = NoCmd

\* C9: the priority passed to an install exceeds that of every element of the
\* manifest at that moment; so the elements this code installed have distinct
\* priorities, rising in the order of installation.
C9_PrioritiesRise ==
    /\ Ran => \A q \in PrePriorities : ParseInt(lastCall.cmd.priority) > q
    /\ \A i, j \in DOMAIN manifest.elems :
          (manifest.elems[i].byCore /\ manifest.elems[j].byCore
             /\ manifest.elems[i].seq < manifest.elems[j].seq)
          => manifest.elems[i].priority < manifest.elems[j].priority

----------------------------------------------------------------------------
(* Properties of makeFlakeFile (checked under SpecFlake and FairFlake) *)

\* the flake file was written: makeFlakeFile got past writeFromTemplate
FlakeWritten == pc # "write" /\ ~(flakeRet = "err" /\ gitCmds = <<>>)

Finished == pc = "done" /\ FlakeWritten

StatAt(d) == StatGit(flakeIn.stat, d)

\* a .git marker at outPath or at an ancestor of it, the root included
MarkerAtAncestor == \E d \in Ancestors(flakeIn.outPath) : StatAt(d) = "found"

\* a .git marker at outPath or at an ancestor below the root, and nothing but
\* not-found in the directories under it
WalkFindsMarker ==
    \E d \in Chain(flakeIn.outPath) :
        /\ StatAt(d) = "found"
        /\ \A e \in Chain(flakeIn.outPath) :
              (e # d /\ d \in Ancestors(e)) => StatAt(e) = "notexist"

AddArgs ==
    IF flakeIn.needsGlibcPatch
    THEN <<"add", "flake.nix", "glibc-patch/flake.nix">>
    ELSE <<"add", "flake.nix">>

\* git init first, git add only after a git init that succeeded
GitOrder ==
    /\ Len(gitCmds) <= 2
    /\ gitCmds # <<>> => gitCmds[1].args = <<"init">>
    /\ Len(gitCmds) = 2 => gitCmds[1].ok /\ gitCmds[2].args = AddArgs
    /\ (Finished /\ gitCmds # <<>> /\ gitCmds[1].ok) => Len(gitCmds) = 2

\* C6 as stated: git init and git add are run if and only if a .git marker
\* exists at outPath or at one of its ancestors; without one no git command
\* is run and no error returned; git add only after a successful git init.
C6_GitIffMarkerExists ==
    /\ GitOrder
    /\ gitCmds # <<>> => MarkerAtAncestor
    /\ (Finished /\ MarkerAtAncestor) => gitCmds # <<>>
    /\ (Finished /\ ~MarkerAtAncestor) => gitCmds = <<>> /\ flakeRet = "nil"

\* C6, amended: git init and git add are run if and only if the walk finds a
\* marker: at outPath or at an ancestor below the root, with not-found in
\* every directory under it. Otherwise no git command is run and no error is
\* returned. git add (with the glibc patch's flake exactly when the plan needs
\* it) only follows a git init that succeeded.
C6_GitIffWalkFindsMarker ==
    /\ GitOrder
    /\ gitCmds # <<>> => WalkFindsMarker
    /\ (Finished /\ WalkFindsMarker) => gitCmds # <<>>
    /\ (Finished /\ ~WalkFindsMarker) => gitCmds = <<>> /\ flakeRet = "nil"

\* a marker found two levels up, both files staged
C6_Witness ==
    /\ Finished
    /\ flakeIn.needsGlibcPatch
    /\ Cardinality(walk.visited) >= 2
    /\ Len(gitCmds) = 2
    /\ gitCmds[2].ok
    /\ flakeRet = "nil"

VisitedWith(r) == {d \in walk.visited : StatAt(d) = r}

\* after a not-found at d the walk goes on with the parent of d
Continues(d) == (pc = "parent" /\ dir = d) \/ dir = Dir(d) \/ Dir(d) \in walk.visited

C10_WalkTerminates == (pc = "walk") ~> (pc \notin {"walk", "stat", "parent"})

====
